---- MODULE Spec2Model ----
(***************************************************************************)
(* Job lifecycle and status reconciliation of the jobs service             *)
(* (services/jobs/jobs/service.py) together with the job-related part of   *)
(* the files service (services/files/files/service.py).                    *)
(*                                                                         *)
(* One action per RPC handler; a handler is atomic (one worker, one        *)
(* database session).  The external orchestrator (Airflow) and the clock   *)
(* are environment actions.                                                *)
(***************************************************************************)
EXTENDS Integers, Sequences, FiniteSets, TLC

\* ---------------------------------------------------------------- bounds
MaxTime == 1

\* ------------------------------------------------------------- constants
NumUnits == 2

None == "None"
\* an execution time that is None
NoTime == 0 - 1
NoJob == [user_id |-> None]

Users == {"u1", "u2"}
\* the users who create jobs
Owners == {"u1"}
JobIds == {"j1"}
Titles == {"t0", "t1"}
JobStatus == {"created", "queued", "running", "canceled", "error", "finished"}
Times == 0 .. MaxTime

\* what check_dag_status can answer for one dag id: nothing at all, created
\* without an execution time, or the state of the last dag run with its
\* execution time
DagReadings ==
    {[status |-> None, execution_time |-> NoTime],
     [status |-> "created", execution_time |-> NoTime]}
    \cup [status : {"queued", "running", "error", "finished"}, execution_time : Times]

NoFolder == [exists |-> FALSE, results |-> FALSE, job_data |-> FALSE, STOP |-> FALSE]

VARIABLES db, airflow, fs, now, threads, last, workers

vars == <<db, airflow, fs, now, threads, last, workers>>

\* the workers that take a call apart into its steps
Workers == {"w1", "w2"}

\* a worker that has not taken a call yet. pc: its position in the call;
\* user, job: the caller and the job; row: the job row loaded by the handler's
\* query; dags: the answers of the dags that its _update_job_status got;
\* status: job.status as the handler read it last; file: the output file of
\* process_sync; trigger: how often it called trigger_dag. After a call, dags
\* and trigger stay as the call left them
IdleWorker == [pc |-> "idle", user |-> None, job |-> None,
               row |-> NoJob, dags |-> <<>>, status |-> None, file |-> <<>>,
               trigger |-> 0]

Min(a, b) == IF a < b THEN a ELSE b

\* ------------------------------------------------------------ envelopes
\* the uniform response envelope, reduced to what tells responses apart
Success(c) == [status |-> "success", code |-> c, internal |-> FALSE, err |-> None]

ServiceException(c, intern, what) ==
    [status |-> "error", code |-> c, internal |-> intern, err |-> what]

\* JobLocked(400, user, msg, links=[]): the exception class itself is defined
\* in jobs/exceptions.py
JobLocked(c) == ServiceException(c, FALSE, "JobLocked")

\* JobNotFinished(400, user, job_id, internal=False): the exception class
\* itself is defined in jobs/exceptions.py
JobNotFinished(c) == ServiceException(c, FALSE, "JobNotFinished")

\* an error envelope handed back unchanged from a collaborator service
Upstream(who) == ServiceException(400, FALSE, who)

\* except Exception as exp: ServiceException(500, user, str(exp))
Caught == ServiceException(500, TRUE, "exception")

\* ------------------------------------------------------------ authorize
\* authorize without the comparison of the job's owner with the caller
authorizeAnyUser(user_id, job) ==
    IF job = NoJob THEN ServiceException(400, FALSE, "not_found")
    ELSE Success(0)

authorize(user_id, job) ==
    IF job = NoJob THEN ServiceException(400, FALSE, "not_found")
    ELSE IF job.user_id # user_id THEN ServiceException(401, FALSE, "unauthorized")
    ELSE Success(0)

\* ------------------------------------------------- _update_job_status
\* Qualifies with <= for <: a run as old as status_updated_at counts as newer
QualifiesNotOlder(job, r) ==
    /\ r.status # None
    /\ \/ job.status = None
       \/ job.status \in {"created", "queued", "running", "error"}
       \/ /\ r.execution_time # NoTime
          /\ job.status_updated_at <= r.execution_time

\* Qualifies without the statuses that are always refreshed
QualifiesOnlyNewer(job, r) ==
    /\ r.status # None
    /\ \/ job.status = None
       \/ /\ r.execution_time # NoTime
          /\ job.status_updated_at < r.execution_time

\* Qualifies with finished among the statuses that are always refreshed
QualifiesAlsoFinished(job, r) ==
    /\ r.status # None
    /\ \/ job.status = None
       \/ job.status \in {"created", "queued", "running", "error", "finished"}
       \/ /\ r.execution_time # NoTime
          /\ job.status_updated_at < r.execution_time

\* Qualifies without the clause for a unit that was run again
QualifiesNoRerun(job, r) ==
    /\ r.status # None
    /\ \/ job.status = None
       \/ job.status \in {"created", "queued", "running", "error"}

\* Qualifies without any condition on the job
QualifiesAnyStatus(job, r) == r.status # None

\* the condition under which one dag's answer is appended to all_status
Qualifies(job, r) ==
    /\ r.status # None
    /\ \/ job.status = None
       \/ job.status \in {"created", "queued", "running", "error"}
       \/ /\ r.execution_time # NoTime
          /\ job.status_updated_at < r.execution_time

all_status(job, rds) == SelectSeq(rds, LAMBDA r : Qualifies(job, r))

\* MaxIndex with min for max
OldestIndex(cs) ==
    CHOOSE i \in 1 .. Len(cs) :
        /\ \A k \in 1 .. Len(cs) : cs[i].execution_time <= cs[k].execution_time
        /\ \A k \in 1 .. (i - 1) : cs[i].execution_time < cs[k].execution_time

\* idx = all_execution_time.index(max(all_execution_time)): the first
\* position holding the greatest execution time
MaxIndex(cs) ==
    CHOOSE i \in 1 .. Len(cs) :
        /\ \A k \in 1 .. Len(cs) : cs[k].execution_time <= cs[i].execution_time
        /\ \A k \in 1 .. (i - 1) : cs[k].execution_time < cs[i].execution_time

\* NewerStatus with min for max
OlderStatus(cs) ==
    cs[CHOOSE i \in 1 .. Len(cs) :
          /\ \A k \in 1 .. Len(cs) : cs[i].execution_time <= cs[k].execution_time
          /\ \A k \in 1 .. (i - 1) : cs[i].execution_time < cs[k].execution_time].status

\* NewerStatus that takes the answer collected last, whatever its time
NewerStatusOfLast(cs) == cs[Len(cs)].status

\* the status written when the collected answers are not all the same
NewerStatus(cs) == cs[MaxIndex(cs)].status

\* max() over a list that holds None next to anything else is a TypeError
MaxRaises(cs) == \E k \in 1 .. Len(cs) : cs[k].execution_time = NoTime

\* Written without the assignment to status_updated_at
WrittenStale(job, status, t) == [job EXCEPT !.status = status]

\* the job row as written by the final assignments and commit
Written(job, status, t) == [job EXCEPT !.status = status, !.status_updated_at = t]

\* AllSame that takes only a single collected answer for agreement
AllSameSingle(cs) == Len(cs) = 1

\* all(status == all_status[0] for status in all_status)
AllSame(cs) == \A k \in 1 .. Len(cs) : cs[k].status = cs[1].status

\* the positions in dag_ids whose answer was collected
Collected(job, rds) == {i \in 1 .. Len(rds) : Qualifies(job, rds[i])}

\* result: the job row afterwards, whether the call raised, and which
\* answers were collected
update_job_status(job, rds, t) ==
    LET cs == all_status(job, rds)
        cand == Collected(job, rds)
    IN
    IF Len(cs) = 0
    THEN [raised |-> FALSE, job |-> job, cand |-> cand]
    ELSE IF AllSame(cs)
    THEN [raised |-> FALSE, job |-> Written(job, cs[1].status, t), cand |-> cand]
    ELSE IF MaxRaises(cs)
    THEN [raised |-> TRUE, job |-> job, cand |-> cand]
    ELSE [raised |-> FALSE, job |-> Written(job, NewerStatus(cs), t), cand |-> cand]

\* _set_job_status
set_job_status(job, new_status, t) ==
    [job EXCEPT !.status = new_status, !.status_updated_at = t]

\* Locked that takes only a running job for one in progress
LockedOnlyRunning(status) == status \in {"running"}

\* Locked that also takes a failed job for one in progress
LockedAlsoError(status) == status \in {"queued", "running", "error"}

\* the guard of modify, process, delete and cancel_processing
Locked(status) == status \in {"queued", "running"}

\* ---------------------------------------------------- files service
\* a job folder: whether it exists, whether its result folder lists any
\* file, whether it holds job data next to the results, whether it holds
\* the STOP file

setup_jobs_result_folder(f) == [f EXCEPT !.exists = TRUE]

\* open(os.path.join(job_folder, 'STOP'), 'a') needs the folder
upload_stop_job_file(f) ==
    IF f.exists THEN [raised |-> FALSE, fs |-> [f EXCEPT !.STOP = TRUE]]
    ELSE [raised |-> TRUE, fs |-> f]

\* shutil.rmtree(job_folder) raises on a folder that is not there
delete_complete_job(f) ==
    IF f.exists THEN [raised |-> FALSE, fs |-> NoFolder]
    ELSE [raised |-> TRUE, fs |-> f]

\* os.listdir(job_result_folder) == 0 compares a list with a number
listdir_eq_0(f) == FALSE

\* os.listdir(job_result_folder) != 0 compares a list with a number
listdir_ne_0(f) == TRUE

\* both branches delete the job folder, set the result folder up again and
\* differ only in moving the result folder aside and back in between
delete_job_without_results(f) ==
    IF ~f.exists THEN [raised |-> TRUE, fs |-> f, ret |-> FALSE]
    ELSE IF listdir_eq_0(f)
    THEN LET g == setup_jobs_result_folder(delete_complete_job(f).fs)
         IN [raised |-> FALSE, fs |-> g, ret |-> listdir_ne_0(g)]
    ELSE LET g == [setup_jobs_result_folder(delete_complete_job(f).fs)
                       EXCEPT !.results = f.results]
         IN [raised |-> FALSE, fs |-> g, ret |-> listdir_ne_0(g)]

\* paths are sequences of components; "/" in front makes a path absolute
FileNames == {"a.tif", "b.png", "c.json"}

\* what glob can list in one folder: names in any order, none of them twice
FileLists ==
    {<<>>} \cup {<<n>> : n \in FileNames}
           \cup {l \in {<<n, m>> : n \in FileNames, m \in FileNames} : l[1] # l[2]}

IsPrefix(p, q) == Len(p) <= Len(q) /\ SubSeq(q, 1, Len(p)) = p

get_user_folder(user_id) == <<"/", "OPENEO_FILES_DIR", user_id>>

get_job_id_folder(user_id, job_id) == get_user_folder(user_id) \o <<"jobs", job_id>>

get_job_results_folder(user_id, job_id) ==
    get_job_id_folder(user_id, job_id) \o <<"result">>

\* complete_path.replace(<user folder>/files/, ''): only a path below the
\* user's files folder loses anything
complete_to_public_path(user_id, complete_path) ==
    LET prefix == get_user_folder(user_id) \o <<"files">> IN
    IF IsPrefix(prefix, complete_path) /\ Len(prefix) < Len(complete_path)
    THEN SubSeq(complete_path, Len(prefix) + 1, Len(complete_path))
    ELSE complete_path

\* names: what glob finds in the job's result folder
get_job_output(user_id, job_id, names) ==
    IF names = <<>>
    THEN [resp |-> ServiceException(400, TRUE, "no_output"), file_list |-> <<>>]
    ELSE [resp |-> Success(200),
          file_list |-> [i \in 1 .. Len(names) |->
                            complete_to_public_path(user_id,
                                get_job_results_folder(user_id, job_id) \o <<names[i]>>)]]

\* ------------------------------------------------- the record of a call
Idle == [op |-> "env", user |-> None, job |-> None, resp |-> Success(0),
         guard |-> None, cand |-> {}, stop |-> FALSE, trigger |-> 0,
         delayed |-> FALSE, listed |-> FALSE, files |-> <<>>, assets |-> <<>>,
     lookup |-> Success(0), cleanup |-> FALSE, jobs |-> <<>>]

\* op, caller and job of the call, the envelope returned, the status the
\* handler's guard read after _update_job_status (None if it did not get
\* there), the dags whose answer was collected, whether _stop_airflow_job
\* was called and how often trigger_dag was; cleanup: whether
\* delete_old_job_runs was called; jobs: the jobs in the envelope of get_all
Call(op, u, j, resp, guard, cand, stop, trigger) ==
    [op |-> op, user |-> u, job |-> j, resp |-> resp,
     guard |-> guard, cand |-> cand, stop |-> stop, trigger |-> trigger,
     delayed |-> FALSE, listed |-> FALSE, files |-> <<>>, assets |-> <<>>,
     lookup |-> Success(0), cleanup |-> FALSE, jobs |-> <<>>]

\* a worker takes up a call once the envelope of the call before it was
\* handed to the caller
Ready == last = Idle

\* the part all job handlers share: query, authorize, _update_job_status
Denied(op, u, j) ==
    /\ Ready
    /\ authorize(u, db[j]).status = "error"
    /\ last' = Call(op, u, j, authorize(u, db[j]), None, {}, FALSE, 0)
    /\ UNCHANGED <<db, airflow, fs, now, threads>>

\* Reconciled for a handler that goes to its guard with the row as stored
ReconciledNever(j) == [raised |-> FALSE, job |-> db[j], cand |-> {}]

\* self._update_job_status(job_id=job_id), called by every handler between
\* authorize and the test of job.status
Reconciled(j) == update_job_status(db[j], airflow[j], now)

ReconcileRaised(op, u, j) ==
    /\ Ready
    /\ authorize(u, db[j]).status = "success"
    /\ Reconciled(j).raised
    /\ last' = Call(op, u, j, Caught, None, Reconciled(j).cand, FALSE, 0)
    /\ UNCHANGED <<db, airflow, fs, now, threads>>

Admitted(u, j) ==
    /\ Ready
    /\ authorize(u, db[j]).status = "success"
    /\ ~Reconciled(j).raised

\* ------------------------------------------------------------- handlers
Init ==
    /\ db = [j \in JobIds |-> NoJob]
    /\ airflow = [j \in JobIds |-> <<>>]
    /\ fs = [j \in JobIds |-> NoFolder]
    /\ now = 0
    /\ threads = {}
    /\ last = Idle
    /\ workers = [w \in Workers |-> IdleWorker]

\* new_job that stores the first user as the owner, whoever calls
new_jobOfFirstUser(user_id, t) ==
    [user_id |-> "u1", status |-> "created", status_updated_at |-> t, title |-> "t0"]

\* the row of JobCreateSchema().load(job_args) with job_args["user_id"] set to
\* the caller's id; status and status_updated_at are the column defaults
new_job(user_id, t) ==
    [user_id |-> user_id, status |-> "created", status_updated_at |-> t, title |-> "t0"]

\* create: the database hands out an id that nothing refers to
create(u, j, graph_ok) ==
    /\ Ready
    /\ db[j] = NoJob /\ fs[j] = NoFolder /\ airflow[j] = <<>>
    /\ \A th \in threads : th.job_id # j
    /\ IF ~graph_ok
       THEN /\ last' = Call("create", u, j, Upstream("processes"), None, {}, FALSE, 0)
            /\ UNCHANGED db
       ELSE /\ db' = [db EXCEPT ![j] = new_job(u, now)]
            /\ last' = Call("create", u, j, Success(201), None, {}, FALSE, 0)
    /\ UNCHANGED <<airflow, fs, now, threads>>

get(u, j, graph_ok) ==
    \/ Denied("get", u, j)
    \/ ReconcileRaised("get", u, j)
    \/ /\ Admitted(u, j)
       /\ db' = [db EXCEPT ![j] = Reconciled(j).job]
       /\ last' = Call("get", u, j,
                       IF graph_ok THEN Success(200) ELSE Upstream("processes"),
                       Reconciled(j).job.status, Reconciled(j).cand, FALSE, 0)
       /\ UNCHANGED <<airflow, fs, now, threads>>

\* the orders in which a query can list the jobs in S
Orders(S) ==
    {ids \in [1 .. Cardinality(S) -> S] :
        \A i, k \in 1 .. Cardinality(S) : ids[i] = ids[k] => i = k}

\* for job in jobs: self._update_job_status(job.id), each with its own
\* commit; the first that raises ends the loop
RECURSIVE update_all(_, _, _, _)
update_all(rows, dags, ids, t) ==
    IF ids = <<>> THEN [raised |-> FALSE, db |-> rows]
    ELSE LET j == Head(ids)
             r == update_job_status(rows[j], dags[j], t)
         IN IF r.raised THEN [raised |-> TRUE, db |-> rows]
            ELSE update_all([rows EXCEPT ![j] = r.job], dags, Tail(ids), t)

\* filter_by with no user_id: every job in the table
filter_byNothing(rows, user_id) == {j \in DOMAIN rows : rows[j] # NoJob}

\* self.db.query(...).filter_by(user_id=user["id"])
filter_by(rows, user_id) ==
    {j \in DOMAIN rows : rows[j] # NoJob /\ rows[j].user_id = user_id}

\* JobShortSchema(many=True).dump(jobs) for the jobs with these ids
JobShort(rows, ids) ==
    [i \in 1 .. Len(ids) |-> [id |-> ids[i], status |-> rows[ids[i]].status]]

\* get_all: the jobs of the user, in the order of their created_at
get_all(u) ==
    /\ Ready
    /\ \E ids \in Orders(filter_by(db, u)) :
          LET r == update_all(db, airflow, ids, now)
          IN /\ db' = r.db
             /\ last' = IF r.raised
                        THEN Call("get_all", u, None, Caught, None, {}, FALSE, 0)
                        ELSE [Call("get_all", u, None, Success(200), None, {},
                                   FALSE, 0)
                              EXCEPT !.jobs = JobShort(r.db, ids)]
    /\ UNCHANGED <<airflow, fs, now, threads>>

\* graph: whether job_args carries a process and, if so, whether the
\* processes service stores it
modify(u, j, title, graph) ==
    \/ Denied("modify", u, j)
    \/ ReconcileRaised("modify", u, j)
    \/ /\ Admitted(u, j)
       /\ LET job == Reconciled(j).job
              resp == IF Locked(job.status) THEN JobLocked(400)
                      ELSE IF graph = "error" THEN Upstream("processes")
                      ELSE Success(204)
          IN /\ db' = [db EXCEPT ![j] =
                          IF resp.status = "success"
                          THEN [job EXCEPT !.title = title] ELSE job]
             /\ last' = Call("modify", u, j, resp, job.status,
                             Reconciled(j).cand, FALSE, 0)
       /\ UNCHANGED <<airflow, fs, now, threads>>

\* what check_dag_status can answer at time t: no run lies in the future
Answers(t) ==
    {r \in DagReadings : r.execution_time <= t}

\* write_and_move_job puts the dag file of the preparation dag in place
write_and_move_job(dags) ==
    IF Len(dags) = 0 THEN <<[status |-> None, execution_time |-> NoTime]>> ELSE dags

\* what check_dag_status answers when _stop_airflow_job asks it about the job
Polled(dags) ==
    IF Len(dags) >= 1 THEN dags[1] ELSE [status |-> None, execution_time |-> NoTime]

\* job_stopped = self.airflow.check_dag_status(job_id) != JobStatus.running:
\* a (status, execution_time) pair is compared with a status
job_stopped(r) == <<r.status, r.execution_time>> # <<"running">>

\* _stop_airflow_job: the STOP file, then sleep and poll until job_stopped;
\* hangs: the poll never lets the loop end
stop_airflow_job(f, dags) ==
    LET up == upload_stop_job_file(f) IN
    [raised |-> up.raised, fs |-> up.fs,
     hangs |-> ~up.raised /\ ~job_stopped(Polled(dags))]

\* the error envelopes get_filepaths of the data service can answer with
DataErrors == {ServiceException(c, i, "data") : c \in {400, 500}, i \in BOOLEAN}

\* _get_in_filepaths that reports a failed lookup in an envelope of its own
get_in_filepathsWrapped(data_response) ==
    IF data_response.status = "error" THEN Caught ELSE Success(0)

\* _get_in_filepaths for a graph with a load_collection node: the answer of
\* get_filepaths itself if that is an error, else the file paths
get_in_filepaths(data_response) ==
    IF data_response.status = "error" THEN data_response ELSE Success(0)

\* TriggerCalls with a second call of trigger_dag after one that failed
TriggerCallsRetried(trigger_worked) == IF trigger_worked THEN 1 ELSE 2

\* how often process calls trigger_dag: once, whatever it returns
TriggerCalls(trigger_worked) == 1

\* ServiceException(500, user, "Job could not be started."), returned if
\* trigger_dag returns false
JobNotStarted == ServiceException(500, TRUE, "not_started")

\* the part of process behind the guard. job: the row as it is stored then;
\* fail: the first collaborator call that reports an error; r: what the
\* preparation dag reports once it was triggered
submit(u, j, job, guard, cand, fail) ==
    \/ /\ fail \in {"predefined", "graph"}
       /\ db' = [db EXCEPT ![j] = job]
       /\ fs' = [fs EXCEPT ![j] = setup_jobs_result_folder(fs[j])]
       /\ last' = Call("process", u, j, Upstream("processes"), guard, cand, FALSE, 0)
       /\ UNCHANGED <<airflow, now, threads>>
    \/ /\ fail = "data"
       /\ db' = [db EXCEPT ![j] = job]
       /\ fs' = [fs EXCEPT ![j] = setup_jobs_result_folder(fs[j])]
       /\ \E data_response \in DataErrors :
             last' = [Call("process", u, j, get_in_filepaths(data_response),
                           guard, cand, FALSE, 0)
                         EXCEPT !.lookup = data_response]
       /\ UNCHANGED <<airflow, now, threads>>
    \/ /\ fail = "trigger"
       /\ db' = [db EXCEPT ![j] = job]
       /\ fs' = [fs EXCEPT ![j] = [setup_jobs_result_folder(fs[j]) EXCEPT !.job_data = TRUE]]
       /\ airflow' = [airflow EXCEPT ![j] = write_and_move_job(airflow[j])]
       /\ last' = Call("process", u, j, JobNotStarted,
                       guard, cand, FALSE, TriggerCalls(FALSE))
       /\ UNCHANGED <<now, threads>>
    \/ /\ fail = "none"
       /\ \E r \in Answers(now) :
          LET dags == [write_and_move_job(airflow[j]) EXCEPT ![1] = r]
              again == update_job_status(job, dags, now)
          IN /\ airflow' = [airflow EXCEPT ![j] = dags]
             /\ db' = [db EXCEPT ![j] = again.job]
             /\ last' = [Call("process", u, j,
                              IF again.raised THEN Caught ELSE Success(202),
                              guard, cand, FALSE, TriggerCalls(TRUE))
                            EXCEPT !.cleanup = ~again.raised]
       /\ fs' = [fs EXCEPT ![j] = [setup_jobs_result_folder(fs[j]) EXCEPT !.job_data = TRUE]]
       /\ UNCHANGED <<now, threads>>

process(u, j, fail) ==
    \/ Denied("process", u, j)
    \/ ReconcileRaised("process", u, j)
    \/ /\ Admitted(u, j)
       /\ Locked(Reconciled(j).job.status)
       /\ db' = [db EXCEPT ![j] = Reconciled(j).job]
       /\ last' = Call("process", u, j, ServiceException(400, FALSE, "JobLocked"),
                       Reconciled(j).job.status, Reconciled(j).cand, FALSE, 0)
       /\ UNCHANGED <<airflow, fs, now, threads>>
    \/ /\ Admitted(u, j)
       /\ ~Locked(Reconciled(j).job.status)
       /\ submit(u, j, Reconciled(j).job, Reconciled(j).job.status,
                 Reconciled(j).cand, fail)

\* canceled_status that goes by the result files alone
canceled_statusByResults(status, results_exists) ==
    IF results_exists THEN "canceled" ELSE "created"

\* the status cancel_processing sets after the cleanup
canceled_status(status, results_exists) ==
    IF status = "running" /\ results_exists THEN "canceled" ELSE "created"

cancel_processing(u, j) ==
    \/ Denied("cancel_processing", u, j)
    \/ ReconcileRaised("cancel_processing", u, j)
    \/ /\ Admitted(u, j)
       /\ LET job == Reconciled(j).job
              stop == stop_airflow_job(fs[j], airflow[j])
              clean == delete_job_without_results(stop.fs)
          IN /\ Locked(job.status) => ~stop.hangs
             /\ IF ~Locked(job.status)
                THEN /\ db' = [db EXCEPT ![j] = job]
                     /\ fs' = fs
                     /\ last' = Call("cancel_processing", u, j, Success(204),
                                     job.status, Reconciled(j).cand, FALSE, 0)
                ELSE IF stop.raised \/ clean.raised
                THEN /\ db' = [db EXCEPT ![j] = job]
                     /\ fs' = [fs EXCEPT ![j] = stop.fs]
                     /\ last' = Call("cancel_processing", u, j, Caught,
                                     job.status, Reconciled(j).cand, TRUE, 0)
                ELSE /\ db' = [db EXCEPT ![j] =
                                  set_job_status(job, canceled_status(job.status, clean.ret), now)]
                     /\ fs' = [fs EXCEPT ![j] = clean.fs]
                     /\ last' = Call("cancel_processing", u, j, Success(204),
                                     job.status, Reconciled(j).cand, TRUE, 0)
       /\ UNCHANGED <<airflow, now, threads>>

\* DeferredParts with the dags and the job row left to the thread as well
DeferredPartsAll(delayed) == IF delayed THEN {"folder", "dags", "row"} ELSE {}

\* what delete leaves to the thread it starts: only delete_complete_job is
\* under "if delayed"; remove_all_dags, delete_dag and db.delete follow the
\* if statement
DeferredParts(delayed) == IF delayed THEN {"folder"} ELSE {}

delete(u, j, delayed) ==
    \/ Denied("delete", u, j)
    \/ ReconcileRaised("delete", u, j)
    \/ /\ Admitted(u, j)
       /\ LET job == Reconciled(j).job
              stop == IF Locked(job.status) THEN stop_airflow_job(fs[j], airflow[j])
                      ELSE [raised |-> FALSE, fs |-> fs[j], hangs |-> FALSE]
              gone == IF "folder" \in DeferredParts(delayed)
                      THEN [raised |-> FALSE, fs |-> stop.fs]
                      ELSE delete_complete_job(stop.fs)
          IN IF stop.hangs THEN FALSE
             ELSE IF stop.raised \/ gone.raised
             THEN /\ db' = [db EXCEPT ![j] = job]
                  /\ fs' = [fs EXCEPT ![j] = stop.fs]
                  /\ last' = [Call("delete", u, j, Caught, job.status,
                                   Reconciled(j).cand, Locked(job.status), 0)
                                 EXCEPT !.delayed = delayed]
                  /\ UNCHANGED <<airflow, threads>>
             ELSE /\ db' = [db EXCEPT ![j] =
                               IF "row" \in DeferredParts(delayed) THEN job ELSE NoJob]
                  /\ fs' = [fs EXCEPT ![j] = gone.fs]
                  /\ airflow' = [airflow EXCEPT ![j] =
                               IF "dags" \in DeferredParts(delayed) THEN @ ELSE <<>>]
                  /\ threads' = IF delayed
                                THEN threads \cup {[user |-> u, job_id |-> j]}
                                ELSE threads
                  /\ last' = [Call("delete", u, j, Success(204), job.status,
                                   Reconciled(j).cand, Locked(job.status), 0)
                                 EXCEPT !.delayed = delayed]
       /\ UNCHANGED now

\* os.path.basename
basename(path) == IF Len(path) = 0 THEN "" ELSE path[Len(path)]

\* os.path.join(base_url, settings.OPENEO_VERSION, "downloads", public_path):
\* an absolute last part drops all parts before it
get_download_url(base_url, public_path) ==
    IF Len(public_path) > 0 /\ public_path[1] = "/" THEN public_path
    ELSE <<base_url, "OPENEO_VERSION", "downloads">> \o public_path

\* job_assets that keeps the first file only
job_assetsFirstOnly(file_list) ==
    [i \in 1 .. Min(1, Len(file_list)) |->
        [href |-> get_download_url("url", file_list[i]),
         name |-> basename(file_list[i])]]

\* job.assets = [{"href": ..., "name": os.path.basename(f)} for f in file_list]
job_assets(file_list) ==
    [i \in 1 .. Len(file_list) |->
        [href |-> get_download_url("url", file_list[i]),
         name |-> basename(file_list[i])]]

\* NotFinished without the status of a job that was never started
NotFinishedOnlyActive(status) == status \in {"queued", "running"}

\* job.status in [JobStatus.created, JobStatus.queued, JobStatus.running]
NotFinished(status) == status \in {"created", "queued", "running"}

\* results_refusal without the case of a failed job
results_refusalNoError(status) ==
    IF status = "canceled" THEN ServiceException(400, FALSE, "canceled")
    ELSE IF NotFinished(status) THEN JobNotFinished(400)
    ELSE Success(0)

\* the three statuses for which get_results answers with an error before it
\* asks for the output; Success(0) for none of them
results_refusal(status) ==
    IF status = "error" THEN ServiceException(424, FALSE, "JobError")
    ELSE IF status = "canceled" THEN ServiceException(400, FALSE, "canceled")
    ELSE IF NotFinished(status) THEN JobNotFinished(400)
    ELSE Success(0)

\* names: what the job's result folder holds when get_job_output lists it
get_results(u, j, names) ==
    \/ Denied("get_results", u, j)
    \/ ReconcileRaised("get_results", u, j)
    \/ /\ Admitted(u, j)
       /\ (names # <<>>) = fs[j].results
       /\ LET job == Reconciled(j).job
              refusal == results_refusal(job.status)
              output == get_job_output(u, j, names)
              call == Call("get_results", u, j, refusal, job.status,
                           Reconciled(j).cand, FALSE, 0)
          IN /\ db' = [db EXCEPT ![j] = job]
             /\ last' = IF refusal.status = "error" THEN call
                        ELSE IF output.resp.status = "error"
                        THEN [call EXCEPT !.resp = output.resp, !.listed = TRUE,
                                          !.files = output.file_list]
                        ELSE [call EXCEPT !.resp = Success(200), !.listed = TRUE,
                                          !.files = output.file_list,
                                          !.assets = job_assets(output.file_list)]
       /\ UNCHANGED <<airflow, fs, now, threads>>

\* _delayed_delete(self, user, job_id) is started with user["id"] as user and
\* reads user["id"] again after the sleep: indexing the str raises, and the
\* thread ends without the call to delete_complete_job
delayed_delete(th) ==
    /\ Ready
    /\ th \in threads
    /\ threads' = threads \ {th}
    /\ last' = Idle
    /\ UNCHANGED <<db, airflow, fs, now>>

\* ---------------------------------------------------------- process_sync
\* filepath.split('.')[-1] of the names a result folder may hold
extension(name) ==
    IF name = "a.tif" THEN "tif" ELSE IF name = "b.png" THEN "png" ELSE "json"

\* map_output_format that passes an unlisted format on as it is
map_output_formatLenient(output_format) ==
    IF output_format \in {"Gtiff", "GTiff", "tif", "tiff"} THEN "Gtiff"
    ELSE IF output_format \in {"jpg", "jpeg"} THEN "jpeg"
    ELSE output_format

\* map_output_format that answers with the file extension of the format
map_output_formatAsExtension(output_format) ==
    IF output_format \in {"Gtiff", "GTiff", "tif", "tiff"} THEN "tif"
    ELSE IF output_format \in {"jpg", "jpeg"} THEN "jpeg"
    ELSE IF output_format \in {"png"} THEN "png"
    ELSE None

\* map_output_format; None: ValueError, not a supported output format
map_output_format(output_format) ==
    IF output_format \in {"Gtiff", "GTiff", "tif", "tiff"} THEN "Gtiff"
    ELSE IF output_format \in {"jpg", "jpeg"} THEN "jpeg"
    ELSE IF output_format \in {"png"} THEN "png"
    ELSE None

\* type_map[fmt].content_type in process_sync; None: KeyError
type_map(fmt) ==
    IF fmt = "Gtiff" THEN "image/tiff"
    ELSE IF fmt = "png" THEN "image/png"
    ELSE IF fmt = "jpeg" THEN "image/jpeg"
    ELSE None

\* sync_waits that also waits for a failed job
sync_waitsAlsoError(status) == status \in {"queued", "running", "error"}

\* the loop of process_sync goes on for these statuses
sync_waits(status) == status \in {"queued", "running"}

\* after the loop process_sync returns an error for these statuses
sync_fails(status) == status \in {"error", "canceled"}

\* process_sync, first part: the call of create
sync_create(w, u, j, graph_ok) ==
    /\ workers[w].pc = "idle"
    /\ create(u, j, graph_ok)
    /\ workers' = [workers EXCEPT ![w] =
                      IF graph_ok
                      THEN [IdleWorker EXCEPT !.pc = "sync_process", !.user = u, !.job = j]
                      ELSE IdleWorker]

\* the call of process; its error is the answer of process_sync
sync_process(w, fail) ==
    /\ workers[w].pc = "sync_process"
    /\ process(workers[w].user, workers[w].job, fail)
    /\ workers' = [workers EXCEPT ![w] =
                      IF last'.resp.status = "error" THEN IdleWorker
                      ELSE [@ EXCEPT !.pc = "sync_poll"]]

\* one round of the loop, _update_job_status and the test of job.status, and
\* behind the loop everything up to the call of delete
sync_poll(w, names) ==
    /\ Ready
    /\ workers[w].pc = "sync_poll"
    /\ LET u == workers[w].user
           j == workers[w].job
       IN
       /\ db[j] # NoJob
       /\ (names # <<>>) = fs[j].results
       /\ LET job == Reconciled(j).job
              output == get_job_output(u, j, names)
              fmt == map_output_format(extension(basename(output.file_list[1])))
              call == Call("process_sync", u, j, Caught, job.status,
                           Reconciled(j).cand, FALSE, 0)
          IN
          IF Reconciled(j).raised
          THEN /\ last' = [call EXCEPT !.guard = None]
               /\ workers' = [workers EXCEPT ![w] = IdleWorker]
               /\ UNCHANGED db
          ELSE /\ db' = [db EXCEPT ![j] = job]
               /\ IF sync_waits(job.status)
                  THEN UNCHANGED <<last, workers>>
                  ELSE IF sync_fails(job.status)
                  THEN /\ last' = [call EXCEPT !.resp = ServiceException(400, TRUE, "status")]
                       /\ workers' = [workers EXCEPT ![w] = IdleWorker]
                  ELSE IF output.resp.status = "error"
                  THEN /\ last' = [call EXCEPT !.resp = output.resp, !.listed = TRUE]
                       /\ workers' = [workers EXCEPT ![w] = IdleWorker]
                  ELSE IF fmt = None
                  THEN /\ last' = [call EXCEPT !.listed = TRUE, !.files = output.file_list]
                       /\ workers' = [workers EXCEPT ![w] = IdleWorker]
                  ELSE /\ UNCHANGED last
                       /\ workers' = [workers EXCEPT ![w] =
                                         [@ EXCEPT !.pc = "sync_delete",
                                                   !.status = job.status,
                                                   !.file = output.file_list[1]]]
    /\ UNCHANGED <<airflow, fs, now, threads>>

\* self.delete(user, job_id, delayed=True); what it returns is not looked at
sync_delete(w) ==
    /\ workers[w].pc = "sync_delete"
    /\ delete(workers[w].user, workers[w].job, TRUE)
    /\ workers' = [workers EXCEPT ![w] = [@ EXCEPT !.pc = "sync_return"]]

\* the success envelope with the file
sync_return(w) ==
    /\ Ready
    /\ workers[w].pc = "sync_return"
    /\ last' = [Call("process_sync", workers[w].user, workers[w].job, Success(200),
                     workers[w].status, {}, FALSE, 0)
                   EXCEPT !.listed = TRUE, !.files = <<workers[w].file>>]
    /\ workers' = [workers EXCEPT ![w] = IdleWorker]
    /\ UNCHANGED <<db, airflow, fs, now, threads>>

\* ------------------------------------------------ calls taken step by step
\* the handler's query of the job row and authorize, for a call that
\* authorize lets pass
query(w, op, u, j) ==
    /\ workers[w].pc = "idle"
    /\ authorize(u, db[j]).status = "success"
    /\ workers' = [workers EXCEPT ![w] =
                      [IdleWorker EXCEPT !.pc = op, !.user = u, !.job = j,
                                         !.row = db[j]]]
    /\ UNCHANGED <<db, airflow, fs, now, threads, last>>

\* the stored row after the commit of a session that ran _update_job_status
\* with result r: nothing is assigned when nothing was collected or max raised
committed(stored, r) ==
    IF r.raised \/ r.cand = {} THEN stored
    ELSE [stored EXCEPT !.status = r.job.status,
                        !.status_updated_at = r.job.status_updated_at]

\* get from _update_job_status on: the answers of the dags are fetched, the
\* status is worked out from them and from the row loaded by the query
get_update(w) ==
    /\ Ready
    /\ workers[w].pc = "get"
    /\ LET u == workers[w].user
           j == workers[w].job
           r == update_job_status(workers[w].row, airflow[j], now)
       IN /\ db' = [db EXCEPT ![j] = committed(db[j], r)]
          /\ last' = IF r.raised
                     THEN Call("get", u, j, Caught, None, r.cand, FALSE, 0)
                     ELSE Call("get", u, j, Success(200), r.job.status, r.cand, FALSE, 0)
          /\ workers' = [workers EXCEPT ![w] =
                            [IdleWorker EXCEPT !.dags = airflow[j],
                                               !.row = workers[w].row]]
    /\ UNCHANGED <<airflow, fs, now, threads>>

\* process from _update_job_status to the test of job.status
process_guard(w) ==
    /\ Ready
    /\ workers[w].pc = "process"
    /\ LET u == workers[w].user
           j == workers[w].job
           r == update_job_status(workers[w].row, airflow[j], now)
           done == [IdleWorker EXCEPT !.dags = airflow[j]]
       IN /\ db' = [db EXCEPT ![j] = committed(db[j], r)]
          /\ IF r.raised
             THEN /\ last' = Call("process", u, j, Caught, None, r.cand, FALSE, 0)
                  /\ workers' = [workers EXCEPT ![w] = done]
             ELSE IF Locked(r.job.status)
             THEN /\ last' = Call("process", u, j,
                                  ServiceException(400, FALSE, "JobLocked"),
                                  r.job.status, r.cand, FALSE, 0)
                  /\ workers' = [workers EXCEPT ![w] = done]
             ELSE /\ UNCHANGED last
                  /\ workers' = [workers EXCEPT ![w] =
                                    [@ EXCEPT !.pc = "passed", !.dags = airflow[j],
                                              !.status = r.job.status]]
    /\ UNCHANGED <<airflow, fs, now, threads>>

\* process behind the guard
process_submit(w, fail) ==
    /\ Ready
    /\ workers[w].pc = "passed"
    /\ submit(workers[w].user, workers[w].job, db[workers[w].job],
              workers[w].status, {}, fail)
    /\ workers' = [workers EXCEPT ![w] =
                      [IdleWorker EXCEPT !.dags = workers[w].dags,
                                         !.trigger = last'.trigger]]

\* modify from _update_job_status on: the test of job.status and, when
\* job_args carries no process, the assignments and the commit; with a
\* process the worker first waits for put_user_defined
modify_guard(w, title, has_process) ==
    /\ Ready
    /\ workers[w].pc = "modify"
    /\ LET u == workers[w].user
           j == workers[w].job
           r == update_job_status(workers[w].row, airflow[j], now)
           row == committed(db[j], r)
           done == IdleWorker
       IN IF r.raised
          THEN /\ db' = [db EXCEPT ![j] = row]
               /\ last' = Call("modify", u, j, Caught, None, r.cand, FALSE, 0)
               /\ workers' = [workers EXCEPT ![w] = done]
          ELSE IF Locked(r.job.status)
          THEN /\ db' = [db EXCEPT ![j] = row]
               /\ last' = Call("modify", u, j, JobLocked(400), r.job.status,
                               r.cand, FALSE, 0)
               /\ workers' = [workers EXCEPT ![w] = done]
          ELSE IF has_process
          THEN /\ db' = [db EXCEPT ![j] = row]
               /\ UNCHANGED last
               /\ workers' = [workers EXCEPT ![w] =
                                 [@ EXCEPT !.pc = "put",
                                           !.status = r.job.status]]
          ELSE /\ db' = [db EXCEPT ![j] = [row EXCEPT !.title = title]]
               /\ last' = Call("modify", u, j, Success(204), r.job.status,
                               r.cand, FALSE, 0)
               /\ workers' = [workers EXCEPT ![w] = done]
    /\ UNCHANGED <<airflow, fs, now, threads>>

\* modify behind put_user_defined: its answer, the assignments to the job
\* and the commit, which writes the attributes that were assigned
modify_put(w, title, stored) ==
    /\ Ready
    /\ workers[w].pc = "put"
    /\ LET u == workers[w].user
           j == workers[w].job
       IN /\ db' = IF stored /\ db[j] # NoJob
                   THEN [db EXCEPT ![j].title = title] ELSE db
          /\ last' = Call("modify", u, j,
                          IF stored THEN Success(204) ELSE Upstream("processes"),
                          workers[w].status, {}, FALSE, 0)
          /\ workers' = [workers EXCEPT ![w] = IdleWorker]
    /\ UNCHANGED <<airflow, fs, now, threads>>

\* cancel_processing from _update_job_status to the test of job.status
cancel_guard(w) ==
    /\ Ready
    /\ workers[w].pc = "cancel_processing"
    /\ LET u == workers[w].user
           j == workers[w].job
           r == update_job_status(workers[w].row, airflow[j], now)
       IN /\ db' = [db EXCEPT ![j] = committed(db[j], r)]
          /\ IF r.raised
             THEN /\ last' = Call("cancel_processing", u, j, Caught, None, r.cand, FALSE, 0)
                  /\ workers' = [workers EXCEPT ![w] = IdleWorker]
             ELSE IF ~Locked(r.job.status)
             THEN /\ last' = Call("cancel_processing", u, j, Success(204),
                                  r.job.status, r.cand, FALSE, 0)
                  /\ workers' = [workers EXCEPT ![w] = IdleWorker]
             ELSE /\ UNCHANGED last
                  /\ workers' = [workers EXCEPT ![w] =
                                    [@ EXCEPT !.pc = "stop", !.status = r.job.status]]
    /\ UNCHANGED <<airflow, fs, now, threads>>

\* _stop_airflow_job, first line: upload_stop_job_file
cancel_stop(w) ==
    /\ Ready
    /\ workers[w].pc = "stop"
    /\ LET u == workers[w].user
           j == workers[w].job
           up == upload_stop_job_file(fs[j])
       IN IF up.raised
          THEN /\ last' = Call("cancel_processing", u, j, Caught,
                               workers[w].status, {}, TRUE, 0)
               /\ workers' = [workers EXCEPT ![w] = IdleWorker]
               /\ UNCHANGED fs
          ELSE /\ fs' = [fs EXCEPT ![j] = up.fs]
               /\ workers' = [workers EXCEPT ![w] = [@ EXCEPT !.pc = "poll"]]
               /\ UNCHANGED last
    /\ UNCHANGED <<db, airflow, now, threads>>

\* one round of the loop in _stop_airflow_job: sleep, check_dag_status and
\* the comparison with JobStatus.running; the worker keeps what it polled
cancel_poll(w) ==
    /\ Ready
    /\ workers[w].pc = "poll"
    /\ LET r == Polled(airflow[workers[w].job])
       IN workers' = [workers EXCEPT ![w] =
                         [@ EXCEPT !.pc = IF job_stopped(r) THEN "clean" ELSE "poll",
                                   !.dags = <<r>>]]
    /\ UNCHANGED <<db, airflow, fs, now, threads, last>>

\* delete_job_without_results and the choice of the status to set
cancel_clean(w) ==
    /\ Ready
    /\ workers[w].pc = "clean"
    /\ LET u == workers[w].user
           j == workers[w].job
           clean == delete_job_without_results(fs[j])
       IN IF clean.raised
          THEN /\ last' = Call("cancel_processing", u, j, Caught,
                               workers[w].status, {}, TRUE, 0)
               /\ workers' = [workers EXCEPT ![w] = IdleWorker]
               /\ UNCHANGED fs
          ELSE /\ fs' = [fs EXCEPT ![j] = clean.fs]
               /\ workers' = [workers EXCEPT ![w] =
                                 [@ EXCEPT !.pc = "set",
                                           !.status = canceled_status(workers[w].status,
                                                                      clean.ret)]]
               /\ UNCHANGED last
    /\ UNCHANGED <<db, airflow, now, threads>>

\* _set_job_status, the commit and the success envelope
cancel_set(w) ==
    /\ Ready
    /\ workers[w].pc = "set"
    /\ LET u == workers[w].user
           j == workers[w].job
       IN /\ db' = [db EXCEPT ![j] = set_job_status(db[j], workers[w].status, now)]
          /\ last' = Call("cancel_processing", u, j, Success(204),
                          workers[w].status, {}, TRUE, 0)
          /\ workers' = [workers EXCEPT ![w] = IdleWorker]
    /\ UNCHANGED <<airflow, fs, now, threads>>

\* ---------------------------------------------------------- environment
\* datetime.utcnow() moves on
tick ==
    /\ Ready
    /\ now < MaxTime
    /\ now' = now + 1
    /\ last' = Idle
    /\ UNCHANGED <<db, airflow, fs, threads>>

\* the orchestrator: a dag of the job changes what it reports, or the
\* next dag of the job shows up
dag_run(j, i, r) ==
    /\ Ready
    /\ Len(airflow[j]) >= 1
    /\ i \in 1 .. Min(Len(airflow[j]) + 1, NumUnits)
    /\ r \in Answers(now)
    /\ airflow' = [airflow EXCEPT ![j] =
                      IF i <= Len(airflow[j]) THEN [airflow[j] EXCEPT ![i] = r]
                      ELSE Append(airflow[j], r)]
    /\ airflow'[j] # airflow[j]
    /\ last' = Idle
    /\ UNCHANGED <<db, fs, now, threads>>

\* a task of the job writes a result file
write_result(j) ==
    /\ Ready
    /\ fs[j].exists /\ ~fs[j].results
    /\ Len(airflow[j]) >= 1
    /\ fs' = [fs EXCEPT ![j].results = TRUE]
    /\ last' = Idle
    /\ UNCHANGED <<db, airflow, now, threads>>

\* the envelope goes back to the caller
reply ==
    /\ ~Ready
    /\ last' = Idle
    /\ UNCHANGED <<db, airflow, fs, now, threads>>

\* every call is handled in one piece by the worker that takes it
Next ==
    \/ \E u \in Owners, j \in JobIds, ok \in BOOLEAN :
          create(u, j, ok) /\ UNCHANGED workers
    \/ \E u \in Users, j \in JobIds, ok \in BOOLEAN :
          get(u, j, ok) /\ UNCHANGED workers
    \/ \E u \in Users : get_all(u) /\ UNCHANGED workers
    \/ \E u \in Users, j \in JobIds, g \in {"absent", "ok", "error"} :
          modify(u, j, "t1", g) /\ UNCHANGED workers
    \/ \E u \in Users, j \in JobIds, f \in {"none", "predefined", "graph", "data", "trigger"} :
          process(u, j, f) /\ UNCHANGED workers
    \/ \E u \in Users, j \in JobIds : cancel_processing(u, j) /\ UNCHANGED workers
    \/ \E u \in Users, j \in JobIds, d \in BOOLEAN :
          delete(u, j, d) /\ UNCHANGED workers
    \/ \E u \in Users, j \in JobIds, fl \in FileLists :
          get_results(u, j, fl) /\ UNCHANGED workers
    \/ \E th \in threads : delayed_delete(th) /\ UNCHANGED workers
    \/ tick /\ UNCHANGED workers
    \/ \E j \in JobIds, i \in 1 .. NumUnits, r \in DagReadings :
          dag_run(j, i, r) /\ UNCHANGED workers
    \/ \E j \in JobIds : write_result(j) /\ UNCHANGED workers
    \/ reply /\ UNCHANGED workers

Spec == Init /\ [][Next]_vars

\* a job processed synchronously, with its owner free to cancel it and the
\* orchestrator running it
NextSync ==
    \/ \E w \in {"w1"}, u \in Owners, j \in JobIds, ok \in BOOLEAN :
          sync_create(w, u, j, ok)
    \/ \E w \in Workers, f \in {"none", "predefined", "graph", "data", "trigger"} :
          sync_process(w, f)
    \/ \E w \in Workers, fl \in FileLists : sync_poll(w, fl)
    \/ \E w \in Workers : sync_delete(w)
    \/ \E w \in Workers : sync_return(w)
    \/ \E u \in Owners, j \in JobIds : cancel_processing(u, j) /\ UNCHANGED workers
    \/ \E th \in threads : delayed_delete(th) /\ UNCHANGED workers
    \/ tick /\ UNCHANGED workers
    \/ \E j \in JobIds, i \in 1 .. NumUnits, r \in DagReadings :
          dag_run(j, i, r) /\ UNCHANGED workers
    \/ \E j \in JobIds : write_result(j) /\ UNCHANGED workers
    \/ reply /\ UNCHANGED workers

SpecSync == Init /\ [][NextSync]_vars

\* the thread started by delete is scheduled however busy the workers are,
\* and every envelope reaches its caller
DeferredStep == \E th \in threads : delayed_delete(th) /\ UNCHANGED workers

ReplyStep == reply /\ UNCHANGED workers

\* what the result folder lists when process_sync asks: nothing, a file of a
\* supported format, a file of another format
SyncOutputs == {<<>>, <<"a.tif">>, <<"c.json">>}

\* the worker of a process_sync call goes on with the call however busy the
\* other workers are
SyncStep ==
    \/ \E w \in Workers, f \in {"none", "predefined", "graph", "data", "trigger"} :
          sync_process(w, f)
    \/ \E w \in Workers, fl \in SyncOutputs : sync_poll(w, fl)
    \/ \E w \in Workers : sync_delete(w)
    \/ \E w \in Workers : sync_return(w)

\* process_sync calls, with the owner free to cancel the job and the
\* orchestrator running it
NextSyncPoll ==
    \/ \E u \in Owners, j \in JobIds, ok \in BOOLEAN : sync_create("w1", u, j, ok)
    \/ SyncStep
    \/ \E u \in Owners, j \in JobIds : cancel_processing(u, j) /\ UNCHANGED workers
    \/ \E th \in threads : delayed_delete(th) /\ UNCHANGED workers
    \/ tick /\ UNCHANGED workers
    \/ \E j \in JobIds, i \in 1 .. NumUnits, r \in DagReadings :
          dag_run(j, i, r) /\ UNCHANGED workers
    \/ \E j \in JobIds : write_result(j) /\ UNCHANGED workers
    \/ reply /\ UNCHANGED workers

SpecSyncPoll ==
    /\ Init /\ [][NextSyncPoll]_vars
    /\ SF_vars(SyncStep) /\ WF_vars(ReplyStep)

\* callers go on asking for the job while and after it is processed
NextSyncLive ==
    \/ NextSync
    \/ \E u \in Users, j \in JobIds, ok \in BOOLEAN :
          get(u, j, ok) /\ UNCHANGED workers

SpecSyncFair ==
    /\ Init /\ [][NextSyncLive]_vars
    /\ SF_vars(DeferredStep) /\ WF_vars(ReplyStep) /\ WF_vars(NextSyncLive)

\* two workers taking process calls for the same job at the same time
NextRace ==
    \/ \E u \in Owners, j \in JobIds : create(u, j, TRUE) /\ UNCHANGED workers
    \/ \E w \in Workers, u \in Owners, j \in JobIds : query(w, "process", u, j)
    \/ \E w \in Workers : process_guard(w)
    \/ \E w \in Workers, f \in {"none", "predefined", "graph", "data", "trigger"} :
          process_submit(w, f)
    \/ tick /\ UNCHANGED workers
    \/ reply /\ UNCHANGED workers

SpecRace == Init /\ [][NextRace]_vars

\* one worker takes modify calls and the other process calls for the same
\* job at the same time, while the job's dags run
NextModify ==
    \/ \E u \in Owners, j \in JobIds : create(u, j, TRUE) /\ UNCHANGED workers
    \/ \E u \in Owners, j \in JobIds : query("w1", "modify", u, j)
    \/ \E title \in Titles, has_process \in BOOLEAN :
          modify_guard("w1", title, has_process)
    \/ \E title \in Titles, stored \in BOOLEAN : modify_put("w1", title, stored)
    \/ \E u \in Owners, j \in JobIds : query("w2", "process", u, j)
    \/ process_guard("w2")
    \/ process_submit("w2", "none")
    \/ tick /\ UNCHANGED workers
    \/ \E j \in JobIds, r \in DagReadings : dag_run(j, 1, r) /\ UNCHANGED workers
    \/ reply /\ UNCHANGED workers

SpecModify == Init /\ [][NextModify]_vars

\* a job is processed and run, and one worker takes cancel_processing calls
\* for it step by step
NextCancel ==
    \/ \E u \in Owners, j \in JobIds : create(u, j, TRUE) /\ UNCHANGED workers
    \/ \E u \in Owners, j \in JobIds :
          (\A w \in Workers : workers[w].pc = "idle")
              /\ process(u, j, "none") /\ UNCHANGED workers
    \/ \E u \in Owners, j \in JobIds : query("w1", "cancel_processing", u, j)
    \/ cancel_guard("w1")
    \/ cancel_stop("w1")
    \/ cancel_poll("w1")
    \/ cancel_clean("w1")
    \/ cancel_set("w1")
    \/ tick /\ UNCHANGED workers
    \/ \E j \in JobIds, r \in DagReadings : dag_run(j, 1, r) /\ UNCHANGED workers
    \/ \E j \in JobIds : write_result(j) /\ UNCHANGED workers
    \/ reply /\ UNCHANGED workers

SpecCancel == Init /\ [][NextCancel]_vars

\* ------------------------------------------- map_output_format by itself
\* the strings map_output_format is called with: the synonyms of its table
\* and some that the table does not list
OutputFormats ==
    {"Gtiff", "GTiff", "tif", "tiff", "jpg", "jpeg", "png",
     "bmp", "PNG", "JPG", "json", ""}

\* a worker about to call map_output_format with output_format
Formatting(output_format) ==
    [IdleWorker EXCEPT !.pc = "format", !.file = <<output_format>>]

InitFormat ==
    /\ db = [j \in JobIds |-> NoJob]
    /\ airflow = [j \in JobIds |-> <<>>]
    /\ fs = [j \in JobIds |-> NoFolder]
    /\ now = 0
    /\ threads = {}
    /\ last = Idle
    /\ workers \in [Workers -> {Formatting(f) : f \in OutputFormats}]

\* fmt = self.map_output_format(...): the worker keeps what came back
format_map(w) ==
    /\ workers[w].pc = "format"
    /\ workers' = [workers EXCEPT ![w] =
                      [@ EXCEPT !.pc = "idle",
                                !.status = map_output_format(workers[w].file[1])]]
    /\ UNCHANGED <<db, airflow, fs, now, threads, last>>

\* the worker's next call of map_output_format
format_call(w, output_format) ==
    /\ workers[w].pc = "idle"
    /\ workers' = [workers EXCEPT ![w] = Formatting(output_format)]
    /\ UNCHANGED <<db, airflow, fs, now, threads, last>>

NextFormat ==
    \/ \E w \in Workers : format_map(w)
    \/ \E w \in Workers, f \in OutputFormats : format_call(w, f)

SpecFormat == InitFormat /\ [][NextFormat]_vars

\* ------------------------------------------------ several jobs side by side
\* the ids the database hands out when more than one job is looked at
JobIdPool == {"j1", "j2"}

InitCreate ==
    /\ db = [j \in JobIdPool |-> NoJob]
    /\ airflow = [j \in JobIdPool |-> <<>>]
    /\ fs = [j \in JobIdPool |-> NoFolder]
    /\ now = 0
    /\ threads = {}
    /\ last = Idle
    /\ workers = [w \in Workers |-> IdleWorker]

\* any user creates jobs while other jobs are processed, run and deleted
NextCreate ==
    \/ \E u \in Users, j \in JobIdPool, ok \in BOOLEAN :
          create(u, j, ok) /\ UNCHANGED workers
    \/ \E u \in Users : get_all(u) /\ UNCHANGED workers
    \/ \E u \in Users, j \in JobIdPool, f \in {"none", "trigger"} :
          process(u, j, f) /\ UNCHANGED workers
    \/ \E u \in Users, j \in JobIdPool : delete(u, j, FALSE) /\ UNCHANGED workers
    \/ \E j \in JobIdPool, r \in DagReadings : dag_run(j, 1, r) /\ UNCHANGED workers
    \/ reply /\ UNCHANGED workers

SpecCreate == InitCreate /\ [][NextCreate]_vars

\* ------------------------------------------------------ get_all by itself
\* what the dags of a job answer when get_all is looked at: no dag yet, one
\* running or finished dag, and a finished dag next to one that has not run,
\* on which _update_job_status raises
ListedDags ==
    {<<>>,
     <<[status |-> "running", execution_time |-> 0]>>,
     <<[status |-> "finished", execution_time |-> 0]>>,
     <<[status |-> "finished", execution_time |-> 0],
       [status |-> "created", execution_time |-> NoTime]>>}

\* the rows of the jobs table when get_all is looked at
ListedRows ==
    {NoJob} \cup
    {[user_id |-> u, status |-> st, status_updated_at |-> 0, title |-> "t0"] :
        u \in Users, st \in {"created", "queued", "finished"}}

\* two ids, each free or holding a job of either user, with any of the
\* answers above; a job that was never processed has no dag
InitGetAll ==
    /\ now \in Times
    /\ db \in [JobIdPool -> ListedRows]
    /\ airflow \in [JobIdPool -> ListedDags]
    /\ \A j \in JobIdPool :
          (db[j] = NoJob \/ db[j].status = "created") => airflow[j] = <<>>
    /\ fs = [j \in JobIdPool |-> NoFolder]
    /\ threads = {}
    /\ last = Idle
    /\ workers = [w \in Workers |-> IdleWorker]

NextGetAll ==
    \/ \E u \in Users : get_all(u) /\ UNCHANGED workers
    \/ reply /\ UNCHANGED workers

SpecGetAll == InitGetAll /\ [][NextGetAll]_vars

\* ------------------------------------------- _update_job_status by itself
\* every (status, execution_time) pair the status reader's interface allows
StatusReadings ==
    [status : JobStatus \cup {None}, execution_time : Times \cup {NoTime}]

DagLists ==
    {<<>>} \cup {<<r>> : r \in StatusReadings}
           \cup {<<r, q>> : r \in StatusReadings, q \in StatusReadings}

\* a stored job of any status, updated at any time up to now, with any
\* answers of its dags; get then runs _update_job_status on it
InitReconcile ==
    /\ now \in Times
    /\ \E u \in Owners, st \in JobStatus, t \in 0 .. now :
          db = [j \in JobIds |-> [user_id |-> u, status |-> st,
                                  status_updated_at |-> t, title |-> "t0"]]
    /\ airflow \in [JobIds -> DagLists]
    /\ fs = [j \in JobIds |-> [NoFolder EXCEPT !.exists = TRUE, !.job_data = TRUE]]
    /\ threads = {}
    /\ last = Idle
    /\ workers = [w \in Workers |-> IdleWorker]

NextReconcile ==
    \/ \E u \in Users, j \in JobIds, ok \in BOOLEAN :
          get(u, j, ok) /\ UNCHANGED workers
    \/ reply /\ UNCHANGED workers

SpecReconcile == InitReconcile /\ [][NextReconcile]_vars

\* two workers taking get calls for the same job at the same time, with the
\* answers of the dags staying as they are
NextTwice ==
    \/ \E w \in Workers, u \in Owners, j \in JobIds : query(w, "get", u, j)
    \/ \E w \in Workers : get_update(w)
    \/ tick /\ UNCHANGED workers
    \/ reply /\ UNCHANGED workers

SpecTwice == InitReconcile /\ [][NextTwice]_vars

TypeOK ==
    /\ now \in Times
    /\ \A j \in JobIds :
        /\ db[j] = NoJob \/
           /\ db[j].user_id \in Users
           /\ db[j].status \in JobStatus
           /\ db[j].status_updated_at \in Times
           /\ db[j].title \in Titles
        /\ Len(airflow[j]) <= NumUnits
        /\ \A i \in 1 .. Len(airflow[j]) : airflow[j][i] \in StatusReadings

\* ================================================================ claims
\* the call recorded in l came from the job's owner: authorize let it pass
OwnerCall(l) == l.resp.err \notin {"not_found", "unauthorized"}

\* l records a call of get that authorize let pass
OwnerGet(l) == l.op = "get" /\ OwnerCall(l)

\* the candidate rule in the words of the specification: a non-empty status
\* and (a) no job status yet, (b) a job status that is always refreshed, or
\* (c) an execution time strictly newer than status_updated_at
IsCandidate(job, r) ==
    /\ r.status # None
    /\ \/ job.status = None
       \/ job.status \in {"created", "queued", "running", "error"}
       \/ (r.execution_time # NoTime /\ r.execution_time > job.status_updated_at)

\* C1 (as claimed; a collaborator's own failure is passed on and is not
\* counted against the claim): a modify or process call of the owner is
\* answered with the Locked error, code 400 and not internal, if and only if
\* the status read by the guard is queued or running, and for every other
\* status the call succeeds.
C1_LockedIffQueuedOrRunning ==
    (last.op \in {"modify", "process"} /\ last.guard # None) =>
        IF last.guard \in {"queued", "running"}
        THEN last.resp = ServiceException(400, FALSE, "JobLocked")
        ELSE \/ last.resp.status = "success"
             \/ last.resp.err \in {"processes", "data", "not_started"}

\* C2: in _update_job_status the answer of a dag is collected exactly when it
\* meets the candidate rule, and the status written is the status of one of
\* the collected answers; with none collected the status stays.
C2_CandidatesExactlyByRule ==
    [][OwnerGet(last') =>
        LET j == last'.job IN
        /\ last'.cand = {i \in 1 .. Len(airflow[j]) : IsCandidate(db[j], airflow[j][i])}
        /\ db'[j].status \in {db[j].status} \cup {airflow[j][i].status : i \in last'.cand}
        /\ (last'.cand = {} => db'[j].status = db[j].status)]_vars

\* C2 witness: a job with two dags of which the first has a status but is too
\* old to count and the second alone was collected
C2_Witness ==
    /\ OwnerGet(last)
    /\ last.cand = {2}
    /\ airflow[last.job][1].status # None
    /\ db[last.job].status = airflow[last.job][2].status

\* two dags with different statuses and different, non-empty execution times
TwoDiffering(dags) ==
    /\ Len(dags) = 2
    /\ dags[1].status # None /\ dags[2].status # None
    /\ dags[1].status # dags[2].status
    /\ dags[1].execution_time # NoTime /\ dags[2].execution_time # NoTime
    /\ dags[1].execution_time # dags[2].execution_time

\* the dag of the two with the greater execution time
Newest(dags) ==
    IF dags[1].execution_time > dags[2].execution_time THEN dags[1] ELSE dags[2]

\* C3 (as claimed): for a job with two dags reporting different statuses,
\* after _update_job_status the job has the status of the dag with the greater
\* execution time, whatever the job's status was.
C3_NewestAlwaysWins ==
    (OwnerGet(last) /\ TwoDiffering(airflow[last.job])) =>
        db[last.job].status = Newest(airflow[last.job]).status

\* C3 (amended): for a job with two dags reporting different statuses, after
\* _update_job_status the job has the status of the dag with the greater
\* execution time provided that dag meets the candidate rule; if it does not,
\* neither dag does and the job's status stays as it was.
C3_NewestCandidateWins ==
    [][(OwnerGet(last') /\ TwoDiffering(airflow[last'.job])) =>
        LET j == last'.job IN
        IF IsCandidate(db[j], Newest(airflow[j]))
        THEN db'[j].status = Newest(airflow[j]).status
        ELSE db'[j] = db[j]]_vars

\* C3 witness: both dags were collected, they disagree, and the job has the
\* status of the second, newer one
C3_Witness ==
    /\ OwnerGet(last)
    /\ TwoDiffering(airflow[last.job])
    /\ last.cand = {1, 2}
    /\ airflow[last.job][2].execution_time > airflow[last.job][1].execution_time
    /\ db[last.job].status = airflow[last.job][2].status

\* C4 (as claimed): for a job with a single dag, whatever the job's status,
\* after _update_job_status the job has the status that dag reports whenever
\* that status is not empty.
C4_SingleUnitAlwaysWins ==
    (OwnerGet(last) /\ Len(airflow[last.job]) = 1 /\ airflow[last.job][1].status # None) =>
        db[last.job].status = airflow[last.job][1].status

\* C4 (amended): for a job with a single dag, after _update_job_status the job
\* has the status that dag reports whenever that status is not empty and the
\* dag meets the candidate rule; otherwise the job is left as it was.
C4_SingleCandidateWins ==
    [][(OwnerGet(last') /\ Len(airflow[last'.job]) = 1) =>
        LET j == last'.job IN
        IF IsCandidate(db[j], airflow[j][1])
        THEN /\ db'[j].status = airflow[j][1].status
             /\ last'.guard = airflow[j][1].status
        ELSE db'[j] = db[j]]_vars

\* C4 witness: a job that was running has taken over finished from its only dag
C4_Witness ==
    /\ OwnerGet(last)
    /\ Len(airflow[last.job]) = 1
    /\ airflow[last.job][1].status = "finished"
    /\ last.cand = {1}
    /\ db[last.job].status = "finished"
    /\ db[last.job].status_updated_at = now

\* C5: if all collected answers carry the same status, the job's status
\* becomes that status, whatever their execution times (empty ones included)
\* and however many were collected.
C5_SameStatusWins ==
    [][OwnerGet(last') =>
        LET j == last'.job
            cs == {i \in 1 .. Len(airflow[j]) : IsCandidate(db[j], airflow[j][i])}
        IN (cs # {} /\ \A a, b \in cs : airflow[j][a].status = airflow[j][b].status) =>
              /\ last'.resp.err # "exception"
              /\ \A a \in cs : db'[j].status = airflow[j][a].status]_vars

\* C5 witness: two collected answers with the same status, one of them
\* without an execution time, and the job has that status
C5_Witness ==
    /\ OwnerGet(last)
    /\ last.cand = {1, 2}
    /\ airflow[last.job][1].status = airflow[last.job][2].status
    /\ airflow[last.job][1].execution_time = NoTime
    /\ airflow[last.job][2].execution_time # NoTime
    /\ db[last.job].status = airflow[last.job][1].status

\* C6: if no dag of the job meets the candidate rule, _update_job_status
\* leaves the job record as it is: status and status_updated_at are not
\* written.
C6_NoCandidateNoWrite ==
    [][OwnerGet(last') =>
        LET j == last'.job IN
        (\A i \in 1 .. Len(airflow[j]) : ~IsCandidate(db[j], airflow[j][i])) =>
            db' = db]_vars

\* C6 witness: a finished job whose dag reports another status from a run
\* that is not newer than the job's status_updated_at
C6_Witness ==
    /\ OwnerGet(last)
    /\ last.cand = {}
    /\ Len(airflow[last.job]) >= 1
    /\ airflow[last.job][1].status = "error"
    /\ airflow[last.job][1].execution_time # NoTime
    /\ db[last.job].status = "finished"

\* C7: every step that changes the status of a stored job, by
\* _update_job_status or by cancel_processing's _set_job_status, leaves
\* status_updated_at at the current time in the same commit.
C7_StatusChangeStampsTime ==
    [][\A j \in JobIds :
        (db[j] # NoJob /\ db'[j] # NoJob /\ db'[j].status # db[j].status) =>
            db'[j].status_updated_at = now']_vars

\* C7 witness: a running job, canceled after the clock moved on, carries the
\* time of the cancel
C7_Witness ==
    /\ last.op = "cancel_processing"
    /\ last.guard = "running"
    /\ last.resp.status = "success"
    /\ db[last.job].status = "canceled"
    /\ now > 0
    /\ db[last.job].status_updated_at = now

\* C8 (as claimed): cancel_processing on a job read as running ends with
\* status canceled if result files exist after the cleanup and with status
\* created if none exist.
C8_CancelRunningByResults ==
    (last.op = "cancel_processing" /\ last.guard = "running"
        /\ last.resp.status = "success") =>
        db[last.job].status = IF fs[last.job].results THEN "canceled" ELSE "created"

\* C9: cancel_processing on a job whose status, as read by the guard, is not
\* queued or running returns success with code 204 and does nothing else:
\* _stop_airflow_job is not called, no STOP file is written, nothing is
\* deleted, and the status stays the one the guard read.
C9_CancelNotRunningIsNoOp ==
    [][(last'.op = "cancel_processing" /\ last'.guard \notin {None, "queued", "running"}) =>
        LET j == last'.job IN
        /\ last'.resp = Success(204)
        /\ ~last'.stop
        /\ fs' = fs /\ airflow' = airflow /\ threads' = threads
        /\ db'[j].status = last'.guard
        /\ db'[j].title = db[j].title /\ db'[j].user_id = db[j].user_id
        /\ db'[j].status_updated_at \in {db[j].status_updated_at, now}]_vars

\* C9 witness: cancel_processing on a finished job answered 204 with the job
\* data still in place and no STOP file
C9_Witness ==
    /\ last.op = "cancel_processing"
    /\ last.guard = "finished"
    /\ last.resp = Success(204)
    /\ db[last.job].status = "finished"
    /\ fs[last.job].job_data /\ fs[last.job].results /\ ~fs[last.job].STOP

\* C10 (as claimed): delete, not delayed, by the owner succeeds for a job of
\* every status, runs _stop_airflow_job first if the job is queued or running,
\* and leaves neither job folder nor dags nor job record.
C10_DeleteSucceedsInEveryStatus ==
    (last.op = "delete" /\ ~last.delayed /\ last.guard # None) =>
        /\ last.resp = Success(204)
        /\ last.stop = (last.guard \in {"queued", "running"})
        /\ db[last.job] = NoJob
        /\ fs[last.job] = NoFolder
        /\ airflow[last.job] = <<>>

\* C11 (as claimed): in a delete with delayed = true the job row is not
\* removed and the dags are not removed before the delayed cleanup of the job
\* folder has been done: no step removes the row or the dags of a job while
\* the cleanup thread of that job is still to run.
C11_RowKeptUntilCleanup ==
    [][\A j \in JobIds :
        (db[j] # NoJob /\ db'[j] = NoJob) \/ (airflow[j] # <<>> /\ airflow'[j] = <<>>)
            => \A th \in threads' : th.job_id # j]_vars

\* C11 (amended): a delete with delayed = true that succeeds removes the job
\* row and the dags of the job at once, in the call itself; only the removal of
\* the job folder is left to the thread, which the call starts and does not
\* wait for.
C11_OnlyFolderIsDeferred ==
    [][(last'.op = "delete" /\ last'.delayed /\ last'.resp.status = "success") =>
        LET j == last'.job IN
        /\ db'[j] = NoJob
        /\ airflow'[j] = <<>>
        /\ fs'[j].exists = fs[j].exists /\ fs'[j].results = fs[j].results
        /\ \E th \in threads' : th.job_id = j]_vars

\* C11 witness: a delayed delete answered 204, the row and the dags of the job
\* gone, its folder with the results still there and its thread still to run
C11_Witness ==
    /\ last.op = "delete" /\ last.delayed
    /\ last.resp = Success(204)
    /\ last.guard = "finished"
    /\ db[last.job] = NoJob
    /\ airflow[last.job] = <<>>
    /\ fs[last.job].exists /\ fs[last.job].results
    /\ \E th \in threads : th.job_id = last.job

\* the operations on one job that start with authorize
JobOps == {"get", "modify", "delete", "process", "cancel_processing", "get_results"}

\* C12: get, modify, delete, process, cancel_processing and get_results, called
\* for a job id that does not exist or by a user who does not own the job,
\* return an error envelope that is not internal, with code 401 for the wrong
\* user (400 for the missing job), and change nothing: no _update_job_status,
\* no write to the job row, no call to the orchestrator or the file storage.
C12_DeniedChangesNothing ==
    [][(last'.op \in JobOps /\
            (db[last'.job] = NoJob \/ db[last'.job].user_id # last'.user)) =>
        /\ last'.resp.status = "error" /\ ~last'.resp.internal
        /\ last'.resp.code = IF db[last'.job] = NoJob THEN 400 ELSE 401
        /\ last'.guard = None /\ last'.cand = {}
        /\ ~last'.stop /\ last'.trigger = 0 /\ ~last'.listed
        /\ UNCHANGED <<db, airflow, fs, threads, now>>]_vars

\* C12 witness: get_results by another user on a job stored as running whose
\* dag reports finished is answered 401 and the job is still stored as running
C12_Witness ==
    /\ last.op = "get_results"
    /\ last.resp = ServiceException(401, FALSE, "unauthorized")
    /\ db[last.job] # NoJob /\ db[last.job].user_id # last.user
    /\ db[last.job].status = "running"
    /\ Len(airflow[last.job]) = 1 /\ airflow[last.job][1].status = "finished"
    /\ fs[last.job].results

\* C13 (as claimed): _stop_airflow_job returns only once the status polled
\* for the job differs from running: no call that went through
\* _stop_airflow_job comes back while the job's dag is reported as running.
C13_StopReturnsOnlyWhenNotRunning ==
    [][(last'.stop /\ last'.resp.status = "success") =>
        Polled(airflow[last'.job]).status # "running"]_vars

\* get_results of the owner found the job finished after _update_job_status
FinishedResults(l) == l.op = "get_results" /\ l.guard = "finished"

\* the assets are the listed files, one for one and in their order, each
\* named after the file it stands for
OneToOne(assets, files) ==
    /\ Len(assets) = Len(files)
    /\ \A i \in 1 .. Len(files) : assets[i].name = files[i][Len(files[i])]
    /\ \A i, k \in 1 .. Len(assets) : assets[i].name = assets[k].name => i = k

C16_NotFinishedRefused ==
    [][last'.op = "get_results" =>
        /\ last'.guard \in {"created", "queued", "running"} =>
              /\ last'.resp = JobNotFinished(400)
              /\ ~last'.resp.internal /\ last'.resp.code = 400
              /\ ~last'.listed /\ last'.assets = <<>>
              /\ UNCHANGED <<airflow, fs, threads>>
        /\ (OwnerCall(last') /\ db[last'.job].status = "created"
               /\ airflow[last'.job] = <<>>) =>
              last'.resp = JobNotFinished(400)]_vars

\* C16 witness: a job created and never processed, asked for its results
C16_Witness ==
    /\ last.op = "get_results"
    /\ last.guard = "created"
    /\ airflow[last.job] = <<>> /\ fs[last.job] = NoFolder
    /\ last.resp = JobNotFinished(400)

\* C17: for a job stored as running whose single dag reports error,
\* get_results first sets the job to error and then returns an error envelope
\* with code 424, not JobNotFinished and not success.
C17_ErrorGives424 ==
    [][(last'.op = "get_results" /\ OwnerCall(last')
          /\ db[last'.job].status = "running"
          /\ Len(airflow[last'.job]) = 1
          /\ airflow[last'.job][1].status = "error") =>
        /\ db'[last'.job].status = "error"
        /\ db'[last'.job].status_updated_at = now
        /\ last'.resp.status = "error" /\ last'.resp.code = 424
        /\ last'.resp # JobNotFinished(400)
        /\ ~last'.listed]_vars

\* C17 witness: the job was running with results on disk, its only dag went
\* to error, and get_results answered 424 with the job now stored as error
C17_Witness ==
    /\ last.op = "get_results"
    /\ last.resp.code = 424
    /\ Len(airflow[last.job]) = 1 /\ airflow[last.job][1].status = "error"
    /\ db[last.job].status = "error"
    /\ db[last.job].status_updated_at = now /\ now > 0
    /\ fs[last.job].results

C20_LookupFailureStopsSubmission ==
    [][(last'.op = "process" /\ last'.lookup.status = "error") =>
        LET j == last'.job IN
        /\ last'.resp = last'.lookup
        /\ airflow' = airflow
        /\ fs'[j].job_data = fs[j].job_data
        /\ last'.trigger = 0
        /\ db'[j] = update_job_status(db[j], airflow[j], now).job
        /\ db'[j].status = last'.guard]_vars

\* C20 witness: a job with a dag from an earlier run, failed since; process
\* came back with the internal error 500 of the data service, and the job is
\* stored as error with its dag as it was
C20_Witness ==
    /\ last.op = "process"
    /\ last.lookup = ServiceException(500, TRUE, "data")
    /\ last.resp = last.lookup
    /\ last.guard = "error"
    /\ db[last.job].status = "error"
    /\ Len(airflow[last.job]) = 1 /\ airflow[last.job][1].status = "error"
    /\ last.trigger = 0

\* C18: with the answers of the dags staying as they are, every
\* _update_job_status that completes, whether it started from the row as it
\* is stored now or from the row as another worker's commit has since
\* replaced it, leaves the job with the status a single run on the stored row
\* gives, and a further run, then or later, leaves that status as it is.
C18_ReconcileTwiceAsOnce ==
    [][\A w \in Workers :
        (workers[w].pc = "get" /\ workers'[w].pc = "idle") =>
            LET j == workers[w].job IN
            /\ db'[j].status = update_job_status(db[j], airflow[j], now).job.status
            /\ \A t \in now .. MaxTime :
                  update_job_status(db'[j], airflow[j], t).job.status = db'[j].status]_vars

\* C18 witness: two workers loaded the same row, a finished job, before
\* either of them committed; both have run _update_job_status, and the job has
\* the status of its newer dag
C18_Witness ==
    /\ last.op = "get" /\ last.resp.status = "success"
    /\ \A w \in Workers : workers[w].pc = "idle" /\ workers[w].row # NoJob
    /\ workers["w1"].row = workers["w2"].row
    /\ workers["w1"].row.status = "finished"
    /\ TwoDiffering(airflow[last.job])
    /\ db[last.job].status = Newest(airflow[last.job]).status
    /\ db[last.job].status # "finished"

\* C19: the guard of process looks at nothing but the status that
\* _update_job_status left in the worker's session: a call gets past it
\* exactly when that status is not queued or running, whatever other calls
\* are under way, and a call that got past it calls trigger_dag unless a
\* lookup before it fails. So two calls can both pass and both trigger.
C19_GuardReadsOnlyStatus ==
    [][\A w \in Workers :
        /\ (workers[w].pc = "process" /\ workers'[w].pc # "process") =>
              LET r == update_job_status(workers[w].row,
                                         airflow[workers[w].job], now)
              IN ~r.raised =>
                    (workers'[w].pc = "passed") =
                        (r.job.status \notin {"queued", "running"})
        /\ (workers[w].pc = "passed" /\ workers'[w].pc = "idle"
              /\ last'.resp.err \notin {"processes", "data"}) =>
              workers'[w].trigger = 1]_vars

\* C19 witness: both workers got past the guard while the job had no dag yet,
\* both have called trigger_dag, and the job is stored as queued
C19_Witness ==
    /\ \A w \in Workers :
          /\ workers[w].pc = "idle"
          /\ workers[w].trigger = 1
          /\ workers[w].dags = <<>>
    /\ last.op = "process" /\ last.resp = Success(202)
    /\ db[last.job].status = "queued"
    /\ airflow[last.job] # <<>>

\* C21: when trigger_dag reports failure, process returns an error with code
\* 500, has called trigger_dag once, has run neither the _update_job_status
\* behind the trigger nor delete_old_job_runs, and leaves the job with the
\* status its guard read, which is not queued or running: a later
\* _update_job_status on the same answers of the dags does not lock the job.
C21_TriggerFailureIsFatal ==
    [][(last'.op = "process" /\ last'.resp.err = "not_started") =>
        LET j == last'.job IN
        /\ last'.resp.status = "error" /\ last'.resp.code = 500
        /\ last'.trigger = 1
        /\ ~last'.cleanup
        /\ db'[j] = update_job_status(db[j], airflow[j], now).job
        /\ db'[j].status = last'.guard
        /\ ~Locked(db'[j].status)
        /\ \A t \in now .. MaxTime :
              LET r == update_job_status(db'[j], airflow'[j], t)
              IN ~r.raised => ~Locked(r.job.status)]_vars

\* C21 witness: a canceled job was submitted again, trigger_dag failed, and
\* the job is still canceled with its dag file written
C21_Witness ==
    /\ last.op = "process"
    /\ last.resp = JobNotStarted
    /\ last.trigger = 1
    /\ last.guard = "canceled"
    /\ db[last.job].status = "canceled"
    /\ airflow[last.job] # <<>>
    /\ fs[last.job].job_data

\* the units of the job that report a run strictly newer than the job's
\* status_updated_at
NewerRuns(job, dags) ==
    {i \in 1 .. Len(dags) :
        /\ dags[i].status # None
        /\ dags[i].execution_time # NoTime
        /\ dags[i].execution_time > job.status_updated_at}

\* status is the status of a run in NewerRuns that no other run in it is
\* newer than
OfNewestRun(status, job, dags) ==
    \E i \in NewerRuns(job, dags) :
        /\ status = dags[i].status
        /\ \A k \in NewerRuns(job, dags) :
              dags[k].execution_time <= dags[i].execution_time

\* C22: a process call whose guard reads canceled is not answered with the
\* Locked error and goes on to trigger_dag unless a lookup fails; and for a job
\* stored as canceled, as soon as a unit reports a run strictly newer than the
\* job's status_updated_at, the _update_job_status of the next call, and the
\* one behind the trigger in process itself, replaces canceled by the status
\* of such a run, the newest of them.
C22_CanceledCanBeRetriggered ==
    [][(last'.op \in JobOps /\ OwnerCall(last') /\ db[last'.job].status = "canceled") =>
        LET j == last'.job IN
        /\ NewerRuns(db[j], airflow[j]) # {} =>
              /\ last'.guard # None
              /\ OfNewestRun(last'.guard, db[j], airflow[j])
        /\ (last'.op = "process" /\ last'.guard = "canceled") =>
              /\ last'.resp # JobLocked(400)
              /\ last'.resp.err \notin {"processes", "data"} => last'.trigger = 1
              /\ (last'.resp = Success(202) /\ NewerRuns(db[j], airflow'[j]) # {}) =>
                    OfNewestRun(db'[j].status, db[j], airflow'[j])]_vars

\* C22 witness: process read the job as canceled, passed the guard and
\* triggered; the run it started is newer than the cancel, and the job is now
\* stored as running
C22_Witness ==
    /\ last.op = "process"
    /\ last.guard = "canceled"
    /\ last.resp = Success(202)
    /\ last.trigger = 1
    /\ db[last.job].status = "running"
    /\ db[last.job].status_updated_at = now /\ now > 0
    /\ \E i \in 1 .. Len(airflow[last.job]) :
          airflow[last.job][i] = [status |-> "running", execution_time |-> now]

\* the database can hand out id j: nothing refers to it
FreeId(j) ==
    /\ db[j] = NoJob /\ fs[j] = NoFolder /\ airflow[j] = <<>>
    /\ \A th \in threads : th.job_id # j

\* C23: create can be called by every user whatever the jobs that exist and
\* their statuses. If the process graph is stored it answers 201 and adds one
\* job row under an id that no job had, owned by the caller and with status
\* created; if storing the process graph fails it returns that error and adds
\* no row. No other job row, no dag and no folder is touched either way.
C23_CreateAddsOneJob ==
    [][/\ (Ready /\ \E j \in JobIdPool : FreeId(j)) =>
              \A u \in Users, ok \in BOOLEAN :
                  ENABLED (\E j \in JobIdPool : create(u, j, ok) /\ UNCHANGED workers)
       /\ last'.op = "create" =>
              LET j == last'.job IN
              /\ db[j] = NoJob
              /\ \A k \in JobIdPool \ {j} : db'[k] = db[k]
              /\ IF last'.resp.status = "success"
                 THEN /\ last'.resp = Success(201)
                      /\ db'[j] # NoJob
                      /\ db'[j].user_id = last'.user
                      /\ db'[j].status = "created"
                 ELSE /\ last'.resp = Upstream("processes")
                      /\ db' = db
              /\ UNCHANGED <<airflow, fs, threads>>]_vars

\* C23 witness: the second user created a job while a job of the first user
\* is stored as running
C23_Witness ==
    /\ last.op = "create" /\ last.resp = Success(201)
    /\ last.user = "u2"
    /\ db[last.job].user_id = "u2" /\ db[last.job].status = "created"
    /\ \E k \in JobIdPool \ {last.job} :
          /\ db[k] # NoJob
          /\ db[k].user_id = "u1" /\ db[k].status = "running"

\* C24: map_output_format returns Gtiff for Gtiff, GTiff, tif and tiff, jpeg
\* for jpg and jpeg, and png for png; for every other string, bmp among them,
\* it raises and returns no value.
C24_SynonymTableIsTotal ==
    \A w \in Workers :
        (workers[w].pc = "idle" /\ workers[w].file # <<>>) =>
            LET f == workers[w].file[1]
                out == workers[w].status
            IN /\ f \in {"Gtiff", "GTiff", "tif", "tiff"} => out = "Gtiff"
               /\ f \in {"jpg", "jpeg"} => out = "jpeg"
               /\ f = "png" => out = "png"
               /\ f \notin {"Gtiff", "GTiff", "tif", "tiff", "jpg", "jpeg", "png"} =>
                     out = None

\* C24 witness: one worker got Gtiff for tiff, the other got nothing for bmp
C24_Witness ==
    /\ workers["w1"].pc = "idle" /\ workers["w1"].file = <<"tiff">>
    /\ workers["w1"].status = "Gtiff"
    /\ workers["w2"].pc = "idle" /\ workers["w2"].file = <<"bmp">>
    /\ workers["w2"].status = None

\* C25 (as claimed): once delete with delayed = true, called by process_sync
\* or directly, has started the thread for a job, the job folder with all it
\* holds is eventually gone.
C25_DeferredDeleteHappens ==
    \A j \in JobIds :
        (\E th \in threads : th.job_id = j) ~> (fs[j] = NoFolder)

\* C26 (as claimed): delete_job_without_results, as cancel_processing calls it
\* behind _stop_airflow_job, removes the job data and the STOP file, keeps the
\* job folder with its result folder, leaves the result files as they were,
\* and returns true exactly if the result folder then holds a file.
C26_CleanupReportsResults ==
    [][(last'.op = "cancel_processing" /\ last'.stop /\ last'.resp.status = "success") =>
        LET j == last'.job
            clean == delete_job_without_results(upload_stop_job_file(fs[j]).fs)
        IN /\ fs'[j] = clean.fs
           /\ fs'[j].exists /\ ~fs'[j].job_data /\ ~fs'[j].STOP
           /\ fs'[j].results = fs[j].results
           /\ clean.ret = fs'[j].results]_vars

\* the state cancel_processing leaves a job in: status created or canceled,
\* the job folder cleaned of its job data, the dags of the stopped run still
\* there
LeftByCancel(j) ==
    /\ db[j] # NoJob
    /\ db[j].status \in {"created", "canceled"}
    /\ fs[j].exists /\ ~fs[j].job_data
    /\ airflow[j] # <<>>

\* C27 (as claimed): once cancel_processing has left a job as created or
\* canceled, a call that only runs _update_job_status on it changes the
\* status only if some unit reports a run strictly newer than the
\* status_updated_at the cancel has set.
C27_CancelStatusSticks ==
    [][(last'.op \in JobOps /\ OwnerCall(last') /\ airflow' = airflow
            /\ LeftByCancel(last'.job)
            /\ db'[last'.job] # NoJob
            /\ db'[last'.job].status # db[last'.job].status) =>
        NewerRuns(db[last'.job], airflow[last'.job]) # {}]_vars

\* C28: get, get_all, modify, get_results and cancel_processing, by whatever
\* user, and the steps of the clock and of the orchestrator leave a finished
\* job finished and its status_updated_at as it is, as long as none of the
\* job's units reports a run strictly newer than that status_updated_at.
C28_FinishedStaysFinished ==
    [][\A j \in JobIds :
        (/\ db[j] # NoJob /\ db[j].status = "finished"
         /\ last'.op \in {"get", "get_all", "modify", "get_results",
                          "cancel_processing", "env"}
         /\ NewerRuns(db[j], airflow[j]) = {}) =>
            /\ db'[j] # NoJob
            /\ db'[j].status = "finished"
            /\ db'[j].status_updated_at = db[j].status_updated_at]_vars

\* C28 witness: get_all has gone over a job that finished before now and
\* whose unit reports an error from a run that is not newer; the job is still
\* finished with its old status_updated_at
C28_Witness ==
    /\ last.op = "get_all" /\ last.resp = Success(200)
    /\ \E j \in JobIds :
          /\ db[j] # NoJob /\ db[j].user_id = last.user
          /\ db[j].status = "finished"
          /\ db[j].status_updated_at < now
          /\ \E i \in 1 .. Len(airflow[j]) :
                /\ airflow[j][i].status = "error"
                /\ airflow[j][i].execution_time <= db[j].status_updated_at

\* all units of the job report status, and there is at least one
AllReport(dags, status) ==
    /\ dags # <<>>
    /\ \A i \in 1 .. Len(dags) : dags[i].status = status

\* C29: in get, modify, delete, process, cancel_processing and get_results,
\* called by the owner, the status the guard decides on is the one
\* _update_job_status has just worked out from the answers of the units, not
\* the one that was stored: modify and process answer Locked exactly if that
\* status is queued or running, delete and cancel_processing stop the job
\* exactly then, get_results refuses by it. So a job stored as running whose
\* units all report finished is not locked for modify, and a job stored as
\* created whose units all report running is locked.
C29_GuardOnReconciledStatus ==
    [][(last'.op \in JobOps /\ OwnerCall(last')) =>
        LET j == last'.job
            R == update_job_status(db[j], airflow[j], now)
        IN IF R.raised
           THEN last'.resp = Caught /\ last'.guard = None
           ELSE /\ last'.guard = R.job.status
                /\ last'.op \in {"modify", "process"} =>
                      (last'.resp = JobLocked(400)) = Locked(R.job.status)
                /\ last'.op \in {"delete", "cancel_processing"} =>
                      last'.stop = Locked(R.job.status)
                /\ last'.op = "get_results" =>
                      last'.listed = (results_refusal(R.job.status).status = "success")
                /\ (last'.op = "modify" /\ db[j].status = "running"
                       /\ AllReport(airflow[j], "finished")) =>
                      last'.resp \in {Success(204), Upstream("processes")}
                /\ (last'.op \in {"modify", "process"} /\ db[j].status = "created"
                       /\ AllReport(airflow[j], "running")) =>
                      last'.resp = JobLocked(400)]_vars

\* C29 witness: modify went through on a job whose unit finished at time 0
\* and whose row was written as finished by this very call at a later time, so
\* the stored status was another one
C29_Witness ==
    /\ last.op = "modify" /\ last.resp = Success(204)
    /\ last.guard = "finished" /\ last.cand # {}
    /\ db[last.job].status = "finished" /\ db[last.job].title = "t1"
    /\ db[last.job].status_updated_at = now /\ now > 0
    /\ AllReport(airflow[last.job], "finished")
    /\ \A i \in 1 .. Len(airflow[last.job]) : airflow[last.job][i].execution_time = 0

\* C30 (as claimed): in cancel_processing on a queued or running job the STOP
\* file is written first; the worker leaves the loop of _stop_airflow_job
\* only when the job is no longer reported as running; it deletes no job data
\* and writes no status before that; then it deletes the job data, and only
\* after that it sets the status.
C30_CancelStepsInOrder ==
    [][\A w \in Workers :
        LET j == workers[w].job IN
        /\ (workers[w].pc = "stop" /\ workers'[w].pc = "poll") => fs'[j].STOP
        /\ (workers[w].pc = "poll" /\ workers'[w].pc = "clean") =>
              Polled(airflow[j]).status # "running"
        /\ (workers[w].pc \in {"stop", "poll"} /\ workers'[w] # workers[w]) =>
              /\ fs'[j].job_data = fs[j].job_data
              /\ db'[j] = db[j]
        /\ (workers[w].pc = "clean" /\ workers'[w].pc = "set") =>
              /\ ~fs'[j].job_data
              /\ db'[j] = db[j]
        /\ (workers[w].pc = "set" /\ workers'[w].pc = "idle") =>
              db'[j].status = workers[w].status]_vars

\* C31: cancel_processing on a job that _update_job_status leaves queued sets
\* the job to created, with result files or without; and whenever
\* cancel_processing sets a job to canceled, the status its guard read was
\* running.
C31_QueuedCancelsToCreated ==
    [][(last'.op = "cancel_processing" /\ last'.guard # None) =>
        LET j == last'.job IN
        /\ last'.guard = "queued" =>
              /\ last'.resp = Success(204)
              /\ db'[j].status = "created"
              /\ db'[j].status_updated_at = now
        /\ (last'.stop /\ db'[j].status = "canceled") => last'.guard = "running"
        /\ ~last'.stop => db'[j].status = last'.guard]_vars

\* C31 witness: a queued job with a file in its result folder was canceled
\* and is stored as created, the file still there
C31_Witness ==
    /\ last.op = "cancel_processing" /\ last.stop
    /\ last.guard = "queued"
    /\ last.resp = Success(204)
    /\ db[last.job].status = "created"
    /\ fs[last.job].results /\ ~fs[last.job].job_data

\* every unit of every job reports a status, and none reports queued or
\* running
Settled ==
    \A j \in JobIds : \A i \in 1 .. Len(airflow[j]) :
        airflow[j][i].status \in {"created", "error", "finished"}

\* C32: if from some time on the units report a status other than queued and
\* running, every process_sync call, all of them taken by worker w1, comes to
\* its end: the loop is left and the worker returns an envelope.
C32_SyncReturnsOnceSettled ==
    (<>[]Settled) => ((workers["w1"].pc # "idle") ~> (workers["w1"].pc = "idle"))

\* C32, the other half stated as if the call always returned: every
\* process_sync call comes to its end, whatever the units report.
C32_SyncAlwaysReturns ==
    (workers["w1"].pc # "idle") ~> (workers["w1"].pc = "idle")

\* C32 witness: the worker is in the loop, the job is stored as running, and
\* the unit has gone to finished: the next round leaves the loop
C32_Witness ==
    /\ workers["w1"].pc = "sync_poll"
    /\ db[workers["w1"].job].status = "running"
    /\ Settled
    /\ airflow[workers["w1"].job] # <<>>
    /\ airflow[workers["w1"].job][1].status = "finished"

\* C33 (as claimed): whatever process_sync returns, the job it created is
\* deleted before that: while no process_sync call is under way, no job
\* record exists, all jobs being created by process_sync.
C33_SyncJobsNotStored ==
    (\A w \in Workers : workers[w].pc = "idle") =>
        \A j \in JobIds : db[j] = NoJob

\* C34 (as claimed): delete, not delayed, of a job that was created and never
\* processed, so that it has neither job folder nor dags, returns success and
\* removes the job record; and a delete, not delayed, that reports success has
\* left neither record nor folder nor dags.
C34_DeleteNeverProcessed ==
    [][(last'.op = "delete" /\ ~last'.delayed /\ OwnerCall(last')) =>
        LET j == last'.job IN
        /\ (db[j].status = "created" /\ airflow[j] = <<>> /\ fs[j] = NoFolder) =>
              /\ last'.resp = Success(204)
              /\ db'[j] = NoJob
        /\ last'.resp.status = "success" =>
              /\ db'[j] = NoJob
              /\ fs'[j] = NoFolder
              /\ airflow'[j] = <<>>]_vars

\* C35 (as claimed): _update_job_status completes for every stored job and
\* every combination of statuses and execution times the units can report,
\* an empty execution time next to a differing status included: a get call
\* of the owner never ends in the handler for exceptions, and the status it
\* reads afterwards is one of JobStatus.
C35_ReconcileIsTotal ==
    OwnerGet(last) =>
        /\ last.resp # Caught
        /\ last.guard \in JobStatus
        /\ db[last.job].status \in JobStatus

\* _update_job_status, run by a get call of the owner, has written finished
WroteFinished(l) == OwnerGet(l) /\ l.cand # {} /\ l.guard = "finished"

\* C36 (as claimed): whenever _update_job_status sets a job to finished, none
\* of the job's units is reported as queued or running in that pass.
C36_FinishedMeansNoneActive ==
    [][WroteFinished(last') =>
        \A i \in 1 .. Len(airflow[last'.job]) :
            airflow[last'.job][i].status \notin {"queued", "running"}]_vars

\* C36 (amended): whenever _update_job_status sets a job to finished, one of
\* the collected units reports finished and no collected unit has a greater
\* execution time than it; a unit that is reported as queued or running in
\* that pass was either not collected or is not newer than that unit.
C36_FinishedIsNewestCollected ==
    [][WroteFinished(last') =>
        LET dags == airflow[last'.job] IN
        \E i \in last'.cand :
            /\ dags[i].status = "finished"
            /\ \A k \in last'.cand :
                  dags[k].execution_time <= dags[i].execution_time
            /\ \A k \in 1 .. Len(dags) :
                  dags[k].status \in {"queued", "running"} =>
                      \/ k \notin last'.cand
                      \/ dags[k].execution_time <= dags[i].execution_time]_vars

\* C36 witness: both units were collected, the first finished at time 1, the
\* second is running since time 0, and the job was set to finished
C36_Witness ==
    /\ WroteFinished(last)
    /\ last.cand = {1, 2}
    /\ airflow[last.job][1] = [status |-> "finished", execution_time |-> 1]
    /\ airflow[last.job][2] = [status |-> "running", execution_time |-> 0]
    /\ db[last.job].status = "finished"

\* modify's commit of the job's attributes: a step of worker w that ends a
\* modify call with success
ModifyCommits(w) ==
    /\ workers[w].pc \in {"modify", "put"}
    /\ workers'[w].pc = "idle"
    /\ last'.op = "modify" /\ last'.resp = Success(204)

\* C37: under every interleaving of a modify call and a process call on the
\* same job, modify never commits the job's attributes at a moment when the
\* job's stored status is queued or running.
C37_ModifyNeverCommitsWhileLocked ==
    [][\A w \in Workers :
        ModifyCommits(w) =>
            /\ db[workers[w].job].status \notin {"queued", "running"}
            /\ db'[workers[w].job].status \notin {"queued", "running"}]_vars

\* the jobs that user u owns
OwnedBy(u) == {j \in DOMAIN db : db[j] # NoJob /\ db[j].user_id = u}

\* C38: get_all leaves every job that the caller does not own as it is
\* stored, whatever it returns; when it returns 200 it has reconciled every
\* job the caller owns, and the jobs in its envelope are exactly the jobs
\* the caller owns, each once, with the status reconciliation left stored.
C38_GetAllKeepsToOwner ==
    [][last'.op = "get_all" =>
        LET u == last'.user IN
        /\ \A j \in DOMAIN db \ OwnedBy(u) : db'[j] = db[j]
        /\ last'.resp = Success(200) =>
              /\ \A j \in OwnedBy(u) :
                    /\ ~update_job_status(db[j], airflow[j], now).raised
                    /\ db'[j] = update_job_status(db[j], airflow[j], now).job
              /\ Len(last'.jobs) = Cardinality(OwnedBy(u))
              /\ {last'.jobs[i].id : i \in 1 .. Len(last'.jobs)} = OwnedBy(u)
              /\ \A i \in 1 .. Len(last'.jobs) :
                    last'.jobs[i].status = db'[last'.jobs[i].id].status]_vars

\* C38 witness: u1 and u2 own one job each and both jobs run; get_all of u1
\* has returned the job of u1 alone, as running, while the job of u2 is
\* still stored as queued
C38_Witness ==
    /\ last.op = "get_all" /\ last.user = "u1" /\ last.resp = Success(200)
    /\ OwnedBy("u1") = {"j1"} /\ OwnedBy("u2") = {"j2"}
    /\ last.jobs = <<[id |-> "j1", status |-> "running"]>>
    /\ db["j1"].status = "running"
    /\ db["j2"].status = "queued"
    /\ Len(airflow["j2"]) >= 1 /\ airflow["j2"][1].status = "running"

\* C39: whatever map_output_format has returned is a key of the type_map
\* of process_sync, so that the lookup of the content type does not fail,
\* and map_output_format maps it to itself.
C39_FormatIsKeyAndFixed ==
    \A w \in Workers :
        (workers[w].pc = "idle" /\ workers[w].file # <<>>
            /\ workers[w].status # None) =>
            /\ type_map(workers[w].status) # None
            /\ map_output_format(workers[w].status) = workers[w].status

\* C39 witness: map_output_format has mapped tiff to Gtiff for one worker
\* and jpg to jpeg for the other, and the content types are found
C39_Witness ==
    /\ workers["w1"].pc = "idle" /\ workers["w1"].file = <<"tiff">>
    /\ workers["w1"].status = "Gtiff"
    /\ workers["w2"].pc = "idle" /\ workers["w2"].file = <<"jpg">>
    /\ workers["w2"].status = "jpeg"
    /\ type_map(workers["w1"].status) = "image/tiff"
    /\ type_map(workers["w2"].status) = "image/jpeg"

====
